---- MODULE Spec2Model ----
(***************************************************************************)
(* Model of the request handler of the legal-judge API gateway            *)
(* (rust-api/src/main.rs, analyze_brief).  Each request is an independent *)
(* run of the handler; a step of the model is the code between two await  *)
(* points of the handler.                                                  *)
(*                                                                         *)
(* Strings the handler computes with (the OCR text and its preview) are    *)
(* sequences of characters; case names, which the ranking rule compares,  *)
(* are sequences of character codes; every other string is a TLA+ string. *)
(* Probabilities and scores are kept in hundredths.                        *)
(***************************************************************************)
EXTENDS Integers, Sequences, FiniteSets, TLC

VARIABLES pc, field, pdf_bytes, pdf_type, ocr_req, ocr_outcome,
          ocr_text, response, backendCalls

vars == <<pc, field, pdf_bytes, pdf_type, ocr_req, ocr_outcome,
          ocr_text, response, backendCalls>>

----------------------------------------------------------------------------
(* Bounds of the model *)

NumReqs == 2
MaxUploadLen == 1
NumPatterns == 10
MaxTextLen == 10000

Reqs == 1..NumReqs

----------------------------------------------------------------------------
(* Values *)

None == [kind |-> "none"]

(* Declared media type recorded for pdf_bytes before any part supplied it *)
NoType == "(none)"

Min(a, b) == IF a <= b THEN a ELSE b

RECURSIVE SeqsUpTo(_, _)
SeqsUpTo(S, n) ==
    IF n = 0 THEN {<< >>}
    ELSE LET shorter == SeqsUpTo(S, n - 1)
         IN shorter \cup {Append(s, x) : s \in shorter, x \in S}

ByteVals == {37}
Payloads == SeqsUpTo(ByteVals, MaxUploadLen)

FieldNames == {"file", "document"}
ContentTypes == {"application/pdf", "text/plain"}

(* Multipart field as the handler sees it: its name and declared type. *)
Fields == [kind : {"field"}, name : FieldNames, content_type : ContentTypes]

----------------------------------------------------------------------------
(* String literals of the handler *)

NoTextReturned ==
    <<"N", "o", " ", "t", "e", "x", "t", " ", "r", "e", "t", "u", "r", "n",
      "e", "d">>

OcrFailedToParse ==
    <<"O", "C", "R", " ", "F", "a", "i", "l", "e", "d", " ", "t", "o", " ",
      "p", "a", "r", "s", "e", " ", "J", "S", "O", "N">>

MockText ==
    <<"E", "r", "r", "o", "r", " ", "c", "o", "n", "t", "a", "c", "t", "i",
      "n", "g", " ", "O", "C", "R", " ", "s", "e", "r", "v", "i", "c", "e",
      " ", "(", "I", "s", " ", "i", "t", " ", "r", "u", "n", "n", "i", "n",
      "g", "?", ")", ".", " ", "U", "s", "i", "n", "g", " ", "m", "o", "c",
      "k", " ", "t", "e", "x", "t", ".">>

Ellipsis == <<".", ".", ".">>

PreviewCap == 500

HilderName ==
    <<72, 105, 108, 100, 101, 114, 32, 118, 46, 32, 83, 116, 46, 32, 80, 101,
      116, 101, 114>>

JavinsName ==
    <<74, 97, 118, 105, 110, 115, 32, 118, 46, 32, 70, 105, 114, 115, 116, 32,
      78, 97, 116, 105, 111, 110, 97, 108, 32, 82, 101, 97, 108, 116, 121>>

----------------------------------------------------------------------------
(* Intake *)

(* An emptiness check that lets every payload through *)
PdfBytesIsEmptyMut(b) == FALSE

(* pdf_bytes.is_empty() *)
PdfBytesIsEmpty(b) == Len(b) = 0

(* The part sent to the OCR service: fixed file name and fixed media type. *)
OcrPart(b) ==
    [kind |-> "part", bytes |-> b, file_name |-> "brief.pdf",
     mime |-> "application/pdf"]

----------------------------------------------------------------------------
(* OCR response bodies and the text the handler derives from them *)

JsonNull == [type |-> "null"]
JsonNumber == [type |-> "number"]
JsonString(t) == [type |-> "string", str |-> t]

NotJson == [json |-> FALSE]
JsonWithout == [json |-> TRUE, has_full_text |-> FALSE]
JsonWith(v) == [json |-> TRUE, has_full_text |-> TRUE, full_text |-> v]

(* json["full_text"]: Null when the member is absent *)
FullText(body) == IF body.has_full_text THEN body.full_text ELSE JsonNull

(* Value::as_str *)
AsStr(v) == IF v.type = "string" THEN [kind |-> "some", str |-> v.str] ELSE None

(* The arm of the match, and of the inner if-let, that produces ocr_text *)
OcrOutcomeOfBody(body) ==
    IF ~body.json THEN "json_err"
    ELSE IF AsStr(FullText(body)) = None THEN "no_str"
    ELSE "ok"

OcrTextOfBody(body) ==
    IF ~body.json THEN OcrFailedToParse
    ELSE LET s == AsStr(FullText(body))
         IN IF s = None THEN NoTextReturned ELSE s.str

----------------------------------------------------------------------------
(* Response assembly *)

Take(t, n) == SubSeq(t, 1, Min(n, Len(t)))

(* A preview that forgets to truncate *)
PreviewMut(t) == t \o Ellipsis

(* ocr_text.chars().take(500).collect::<String>() + "..." *)
Preview(t) == Take(t, PreviewCap) \o Ellipsis

(* A mapping whose values do not add up *)
ProbabilitiesMut ==
    [l \in {"PLAINTIFF_WINS", "DEFENDANT_WINS", "MIXED"} |->
        CASE l = "PLAINTIFF_WINS" -> 85
          [] l = "DEFENDANT_WINS" -> 10
          [] l = "MIXED" -> 15]

Probabilities ==
    [l \in {"PLAINTIFF_WINS", "DEFENDANT_WINS", "MIXED"} |->
        CASE l = "PLAINTIFF_WINS" -> 85
          [] l = "DEFENDANT_WINS" -> 10
          [] l = "MIXED" -> 5]

PredictedOutcome == [label |-> "PLAINTIFF_WINS", probabilities |-> Probabilities]

Hilder ==
    [case_name |-> HilderName, citation |-> "478 A.2d 202 (Vt. 1984)",
     relevance_score |-> 92,
     snippet |-> "Implied warranty of habitability exists in every residential lease..."]

Javins ==
    [case_name |-> JavinsName, citation |-> "428 F.2d 1071",
     relevance_score |-> 88,
     snippet |-> "Leases of urban dwellings contain implied warranty..."]

(* The two cases listed in the opposite order *)
TopCasesMut == <<Javins, Hilder>>

TopCases == <<Hilder, Javins>>

JudgeOpinion ==
    "Based on the precedents of Hilder and Javins, the court finds that the landlord breach..."

AnalyzeResponse(t) ==
    [kind |-> "AnalyzeResponse",
     ocr_text |-> Preview(t),
     predicted_outcome |-> PredictedOutcome,
     top_cases |-> TopCases,
     judge_opinion |-> JudgeOpinion]

NoFileError == [kind |-> "error", error |-> "No file uploaded"]

----------------------------------------------------------------------------
(* Texts an OCR backend may return *)

PatternText(n, k) == [i \in 1..n |-> IF i % k = 0 THEN "." ELSE "a"]

OcrTexts == {PatternText(n, 2) : n \in {0, 2}}

PreviewLens ==
    {0, 1, 2, PreviewCap - 1, PreviewCap, PreviewCap + 1, PreviewCap + 2,
     PreviewCap + 3, PreviewCap + 4, 600, 2 * PreviewCap, MaxTextLen - 1,
     MaxTextLen}

LongTexts == {PatternText(n, k) : n \in PreviewLens, k \in 1..NumPatterns}

BodiesOf(texts) ==
    {NotJson, JsonWithout, JsonWith(JsonNull), JsonWith(JsonNumber)}
        \cup {JsonWith(JsonString(t)) : t \in texts}

----------------------------------------------------------------------------
(* Initial state: every request has just entered the handler *)

Init ==
    /\ pc = [r \in Reqs |-> "next_field"]
    /\ field = [r \in Reqs |-> None]
    /\ pdf_bytes = [r \in Reqs |-> << >>]
    /\ pdf_type = [r \in Reqs |-> NoType]
    /\ ocr_req = [r \in Reqs |-> None]
    /\ ocr_outcome = [r \in Reqs |-> "none"]
    /\ ocr_text = [r \in Reqs |-> << >>]
    /\ response = [r \in Reqs |-> None]
    /\ backendCalls = [r \in Reqs |-> << >>]

----------------------------------------------------------------------------
(* Steps of analyze_brief *)

(* multipart.next_field().await yields Ok(Some(field)) *)
NextFieldSome(r) ==
    /\ pc[r] = "next_field"
    /\ \E f \in Fields :
         IF f.name = "file"
         THEN /\ field' = [field EXCEPT ![r] = f]
              /\ pc' = [pc EXCEPT ![r] = "field_bytes"]
         ELSE UNCHANGED <<field, pc>>
    /\ UNCHANGED <<pdf_bytes, pdf_type, ocr_req, ocr_outcome, ocr_text,
                   response, backendCalls>>

(* field.bytes().await: Ok(bytes) replaces pdf_bytes, Err is skipped *)
FieldBytes(r) ==
    /\ pc[r] = "field_bytes"
    /\ \/ \E b \in Payloads :
            /\ pdf_bytes' = [pdf_bytes EXCEPT ![r] = b]
            /\ pdf_type' = [pdf_type EXCEPT ![r] = field[r].content_type]
       \/ UNCHANGED <<pdf_bytes, pdf_type>>
    /\ field' = [field EXCEPT ![r] = None]
    /\ pc' = [pc EXCEPT ![r] = "next_field"]
    /\ UNCHANGED <<ocr_req, ocr_outcome, ocr_text, response, backendCalls>>

(* next_field() yields Err: the unwrap panics, the handler produces nothing *)
NextFieldErr(r) ==
    /\ pc[r] = "next_field"
    /\ pc' = [pc EXCEPT ![r] = "panicked"]
    /\ UNCHANGED <<field, pdf_bytes, pdf_type, ocr_req, ocr_outcome,
                   ocr_text, response, backendCalls>>

(* next_field() yields Ok(None) and nothing was collected *)
NoFileUploaded(r) ==
    /\ pc[r] = "next_field"
    /\ PdfBytesIsEmpty(pdf_bytes[r])
    /\ response' = [response EXCEPT ![r] = NoFileError]
    /\ pc' = [pc EXCEPT ![r] = "done"]
    /\ UNCHANGED <<field, pdf_bytes, pdf_type, ocr_req, ocr_outcome,
                   ocr_text, backendCalls>>

(* next_field() yields Ok(None) with bytes collected: the OCR request is sent *)
SendToOcr(r) ==
    /\ pc[r] = "next_field"
    /\ ~PdfBytesIsEmpty(pdf_bytes[r])
    /\ ocr_req' = [ocr_req EXCEPT ![r] = OcrPart(pdf_bytes[r])]
    /\ backendCalls' = [backendCalls EXCEPT ![r] = Append(@, "OCR")]
    /\ pc' = [pc EXCEPT ![r] = "ocr_send"]
    /\ UNCHANGED <<field, pdf_bytes, pdf_type, ocr_outcome, ocr_text,
                   response>>

(* The handler returns Json(response) built from the text t *)
Respond(r, outcome, t) ==
    /\ ocr_outcome' = [ocr_outcome EXCEPT ![r] = outcome]
    /\ ocr_text' = [ocr_text EXCEPT ![r] = t]
    /\ response' = [response EXCEPT ![r] = AnalyzeResponse(t)]
    /\ pc' = [pc EXCEPT ![r] = "done"]
    /\ UNCHANGED <<field, pdf_bytes, pdf_type, ocr_req, backendCalls>>

(* send().await yields Ok(resp); the status of resp is not looked at *)
OcrSendOk(r) ==
    /\ pc[r] = "ocr_send"
    /\ pc' = [pc EXCEPT ![r] = "ocr_json"]
    /\ UNCHANGED <<field, pdf_bytes, pdf_type, ocr_req, ocr_outcome,
                   ocr_text, response, backendCalls>>

(* A handler that answers a failed send by sending the request again *)
OcrSendErrMut(r) ==
    /\ pc[r] = "ocr_send"
    /\ backendCalls' = [backendCalls EXCEPT ![r] = Append(@, "OCR")]
    /\ UNCHANGED <<pc, field, pdf_bytes, pdf_type, ocr_req, ocr_outcome,
                   ocr_text, response>>

(* send().await yields Err(e): the mock text stands in for the OCR text *)
OcrSendErr(r) ==
    /\ pc[r] = "ocr_send"
    /\ Respond(r, "send_err", MockText)

(* resp.json().await, for a body drawn from bodies *)
OcrJson(r, bodies) ==
    /\ pc[r] = "ocr_json"
    /\ \E body \in bodies :
         Respond(r, OcrOutcomeOfBody(body), OcrTextOfBody(body))

Next ==
    \E r \in Reqs :
        \/ NextFieldSome(r)
        \/ FieldBytes(r)
        \/ NextFieldErr(r)
        \/ NoFileUploaded(r)
        \/ SendToOcr(r)
        \/ OcrSendOk(r)
        \/ OcrSendErr(r)
        \/ OcrJson(r, BodiesOf(OcrTexts))

Spec == Init /\ [][Next]_vars

(* Preview inputs: one request is reading the OCR response body, which is *)
(* drawn from texts of 0 to MaxTextLen characters.                         *)
InitPreview ==
    /\ pc = [r \in Reqs |-> IF r = 1 THEN "ocr_json" ELSE "next_field"]
    /\ field = [r \in Reqs |-> None]
    /\ pdf_bytes = [r \in Reqs |-> IF r = 1 THEN <<37>> ELSE << >>]
    /\ pdf_type = [r \in Reqs |-> IF r = 1 THEN "application/pdf" ELSE NoType]
    /\ ocr_req = [r \in Reqs |-> IF r = 1 THEN OcrPart(<<37>>) ELSE None]
    /\ ocr_outcome = [r \in Reqs |-> "none"]
    /\ ocr_text = [r \in Reqs |-> << >>]
    /\ response = [r \in Reqs |-> None]
    /\ backendCalls = [r \in Reqs |-> IF r = 1 THEN <<"OCR">> ELSE << >>]

NextPreview == \E r \in Reqs : OcrJson(r, BodiesOf(LongTexts))

SpecPreview == InitPreview /\ [][NextPreview]_vars

----------------------------------------------------------------------------
(* Vocabulary of the properties *)

Count(calls, b) == Cardinality({i \in DOMAIN calls : calls[i] = b})

Terminal(r) == pc[r] \in {"done", "panicked"}

Succeeded(r) == pc[r] = "done" /\ response[r].kind = "AnalyzeResponse"

IsPrefix(p, t) == Len(p) <= Len(t) /\ SubSeq(t, 1, Len(p)) = p

RECURSIVE LexLess(_, _)
LexLess(a, b) ==
    IF Len(b) = 0 THEN FALSE
    ELSE IF Len(a) = 0 THEN TRUE
    ELSE IF Head(a) # Head(b) THEN Head(a) < Head(b)
    ELSE LexLess(Tail(a), Tail(b))

Ranked(cases) ==
    \A i, j \in DOMAIN cases :
        i < j =>
            \/ cases[i].relevance_score > cases[j].relevance_score
            \/ /\ cases[i].relevance_score = cases[j].relevance_score
               /\ ~LexLess(cases[j].case_name, cases[i].case_name)

RECURSIVE SumOver(_, _)
SumOver(f, S) ==
    IF S = {} THEN 0
    ELSE LET x == CHOOSE y \in S : TRUE
         IN f[x] + SumOver(f, S \ {x})

----------------------------------------------------------------------------
(* C1: a request whose collected 'file' payload is empty issues no backend *)
(* call, and once its multipart stream has been read to the end it returns *)
(* the error object {error: "No file uploaded"}.                            *)
C1_EmptyUploadRejected ==
    \A r \in Reqs :
        Len(pdf_bytes[r]) = 0 =>
            /\ backendCalls[r] = << >>
            /\ ocr_req[r] = None
            /\ pc[r] = "done" => response[r] = NoFileError

(* A 'file' part with zero bytes was collected and the request was rejected *)
C1_Witness ==
    \E r \in Reqs :
        /\ pc[r] = "done"
        /\ pdf_type[r] # NoType
        /\ Len(pdf_bytes[r]) = 0
        /\ response[r] = NoFileError
        /\ backendCalls[r] = << >>

(* C2: when the OCR send fails with a transport error the request ends in *)
(* a structured error, not in a success body, and neither Prediction nor  *)
(* Opinion is called.                                                      *)
C2_OcrUnreachableFails ==
    \A r \in Reqs :
        (pc[r] = "done" /\ ocr_outcome[r] = "send_err") =>
            /\ response[r].kind = "error"
            /\ Count(backendCalls[r], "Prediction") = 0
            /\ Count(backendCalls[r], "Opinion") = 0

(* C3: when the OCR call succeeds, Retrieval and Prediction have both been *)
(* invoked by the time the request is finished, and neither is invoked     *)
(* before the OCR call.                                                     *)
C3_RetrievalAndPredictionInvoked ==
    \A r \in Reqs :
        /\ (pc[r] = "done" /\ ocr_outcome[r] = "ok") =>
              /\ Count(backendCalls[r], "Retrieval") >= 1
              /\ Count(backendCalls[r], "Prediction") >= 1
        /\ \A i \in DOMAIN backendCalls[r] :
              backendCalls[r][i] \in {"Retrieval", "Prediction"} =>
                  /\ \E j \in 1..(i - 1) : backendCalls[r][j] = "OCR"
                  /\ ocr_outcome[r] # "none"

(* C4: every request that has stopped running has delivered a success body *)
(* or a structured error object; the handler never panics.                 *)
C4_AlwaysResponds ==
    \A r \in Reqs :
        /\ pc[r] # "panicked"
        /\ Terminal(r) => response[r].kind \in {"AnalyzeResponse", "error"}

(* C5: an OCR call is made only for a 'file' part declared application/pdf, *)
(* and the media type sent to the OCR backend is the declared one.          *)
C5_OnlyPdfAccepted ==
    \A r \in Reqs :
        ocr_req[r] # None =>
            /\ pdf_type[r] = "application/pdf"
            /\ ocr_req[r].mime = pdf_type[r]

(* C6: an OCR response without a string field full_text fails the request; *)
(* no success response is built from substitute text.                       *)
C6_MalformedOcrResponseFails ==
    \A r \in Reqs :
        (pc[r] = "done" /\ ocr_outcome[r] \in {"json_err", "no_str"}) =>
            response[r].kind = "error"

(* C7: the ocr_text preview of a success response is at most PreviewCap    *)
(* characters followed by the ellipsis marker, and the part before the      *)
(* marker is a prefix of the extracted text.                                *)
C7_PreviewBounded ==
    \A r \in Reqs :
        Succeeded(r) =>
            LET p == response[r].ocr_text
                n == Len(p) - Len(Ellipsis)
            IN /\ Len(p) <= PreviewCap + Len(Ellipsis)
               /\ n >= 0
               /\ SubSeq(p, n + 1, Len(p)) = Ellipsis
               /\ IsPrefix(SubSeq(p, 1, n), ocr_text[r])

(* An extracted text longer than the cap was cut to the full preview length *)
C7_Witness ==
    \E r \in Reqs :
        /\ Succeeded(r)
        /\ ocr_outcome[r] = "ok"
        /\ Len(ocr_text[r]) = MaxTextLen
        /\ Len(response[r].ocr_text) = PreviewCap + Len(Ellipsis)

(* C8: top_cases of a success response is ordered by relevance_score        *)
(* descending, equal scores by case_name ascending.                         *)
C8_TopCasesRanked ==
    \A r \in Reqs : Succeeded(r) => Ranked(response[r].top_cases)

(* A success response with more than one case to order *)
C8_Witness ==
    \E r \in Reqs : Succeeded(r) /\ Len(response[r].top_cases) >= 2

(* C9: the probabilities of a success response sum to 1 (100 hundredths)    *)
(* and the label is one of the keys of the mapping.                         *)
C9_ProbabilitiesSumToOne ==
    \A r \in Reqs :
        Succeeded(r) =>
            LET po == response[r].predicted_outcome
            IN /\ SumOver(po.probabilities, DOMAIN po.probabilities) = 100
               /\ po.label \in DOMAIN po.probabilities

(* A success response carrying a prediction over several labels *)
C9_Witness ==
    \E r \in Reqs :
        /\ Succeeded(r)
        /\ Cardinality(DOMAIN response[r].predicted_outcome.probabilities) = 3

(* C10: a request issues each backend call at most once, issues none once   *)
(* it has reached a terminal outcome, and a step of one request changes     *)
(* nothing of another request.                                              *)
AtMostOneCallEach ==
    \A r \in Reqs :
        \A b \in {"OCR", "Retrieval", "Prediction", "Opinion"} :
            Count(backendCalls[r], b) <= 1

NoCallAfterTerminal ==
    \A r \in Reqs : Terminal(r) => backendCalls'[r] = backendCalls[r]

LocalState(r) ==
    <<pc[r], field[r], pdf_bytes[r], pdf_type[r], ocr_req[r], ocr_outcome[r],
      ocr_text[r], response[r], backendCalls[r]>>

RequestsIsolated ==
    \A r1, r2 \in Reqs :
        (r1 # r2 /\ LocalState(r1)' # LocalState(r1)) =>
            LocalState(r2)' = LocalState(r2)

C10_BoundedBackendCalls ==
    /\ []AtMostOneCallEach
    /\ [][NoCallAfterTerminal /\ RequestsIsolated]_vars

(* One request has failed at the OCR send after its single call while       *)
(* another request has its own OCR call in flight.                          *)
C10_Witness ==
    \E r1, r2 \in Reqs :
        /\ r1 # r2
        /\ pc[r1] = "done"
        /\ ocr_outcome[r1] = "send_err"
        /\ Count(backendCalls[r1], "OCR") = 1
        /\ pc[r2] = "ocr_send"
        /\ Count(backendCalls[r2], "OCR") = 1

====
